---- MODULE Spec2Model ----
(***************************************************************************)
(* Model of library/dokku_git_config.py: the Ansible module that reads an  *)
(* app's git configuration with `dokku git:report` and writes each         *)
(* differing property with `dokku git:set`.                                *)
(*                                                                         *)
(* Python strings are sequences of one-character strings, so that the      *)
(* report parser and the shell quoting are computed character by           *)
(* character.  Python's None is the one-element sequence <<"None">>, which *)
(* no string over single characters equals.                                *)
(***************************************************************************)
EXTENDS Integers, Sequences, FiniteSets, TLC

VARIABLES
    sys,            \* external system: dokku property -> stored value
    params,         \* module.params as supplied: sequence of <<name, value>>
    pc,             \* position of main(): "idle", "report", "loop", "exited"
    report,         \* main's `report` (dict param -> value)
    idx,            \* position of the for loop in PROPERTY_MAP.items()
    has_changed,    \* main's has_changed
    changed_keys,   \* main's changed_keys
    meta,           \* main's meta dict
    cmds,           \* external commands executed by the current call, in order
    outcome,        \* what the call handed to fail_json / exit_json
    calls,          \* number of calls of main() started so far
    before,         \* the external system's state when the current call started
    hist,           \* finished calls: sequence of [params, before, cmds, outcome, after]
    check_output,   \* get_git_report: what subprocess_check_output returned
    lines,          \* get_git_report's `output` once rebound by line 97
    line_no,        \* position of get_git_report's for loop in `output`
    ret             \* what get_git_report returned: <<report, error>>

mainVars == <<sys, params, idx, has_changed, changed_keys, meta, cmds, outcome,
              calls, before, hist>>

readerVars == <<check_output, lines, line_no, ret>>

vars == <<sys, params, pc, report, idx, has_changed, changed_keys, meta, cmds,
          outcome, calls, before, hist, check_output, lines, line_no, ret>>

-----------------------------------------------------------------------------
(* Bounds *)

MaxCalls == 2

\* Report lines given to get_git_report alone: the most spaces before the
\* line, between the prefix word and the label, and after the separator.
MaxIndent == 3
MaxGap == 2
MaxPad == 3

-----------------------------------------------------------------------------
(* Python values *)

None == <<"None">>

\* Python truthiness of a str-or-None value, as tested by `if error:`.
Truthy(x) == x # None /\ x # <<>>

Whitespace == {" ", "\t"}

Spaces(n) == [k \in 1..n |-> " "]

EmptyDict == [k \in {} |-> <<>>]

\* dict.get(key, default)
DictGet(d, key, default) == IF key \in DOMAIN d THEN d[key] ELSE default

-----------------------------------------------------------------------------
(* The spelling tables *)

KeepGitDir == <<"k","e","e","p","-","g","i","t","-","d","i","r">>
RevEnvVar == <<"r","e","v","-","e","n","v","-","v","a","r">>
DeployBranch == <<"d","e","p","l","o","y","-","b","r","a","n","c","h">>

\* PROPERTY_MAP.items(): the pairs of the dict literal in insertion order.
PROPERTY_MAP ==
    << <<"keep_git_dir", KeepGitDir>>,
       <<"rev_env_var", RevEnvVar>>,
       <<"deploy_branch", DeployBranch>> >>

\* the read-key table with two of its values exchanged
ReportKeyMapCrossed ==
    (KeepGitDir :> "keep_git_dir") @@ (RevEnvVar :> "deploy_branch")
        @@ (DeployBranch :> "rev_env_var")

REPORT_KEY_MAP ==
    (KeepGitDir :> "keep_git_dir") @@ (RevEnvVar :> "rev_env_var")
        @@ (DeployBranch :> "deploy_branch")

ParamNames == {PROPERTY_MAP[k][1] : k \in DOMAIN PROPERTY_MAP}

\* position of an option in the declaration order of the property table
DeclIndex(param_name) == CHOOSE k \in DOMAIN PROPERTY_MAP : PROPERTY_MAP[k][1] = param_name
DokkuProps == {PROPERTY_MAP[k][2] : k \in DOMAIN PROPERTY_MAP}

App == <<"a","p","p">>

-----------------------------------------------------------------------------
(* String operations used by get_git_report *)

RECURSIVE RunEnd(_, _)
\* first position at or after k that holds no whitespace
RunEnd(s, k) ==
    IF k <= Len(s) /\ s[k] \in Whitespace THEN RunEnd(s, k + 1) ELSE k

RECURSIVE SubRunsFrom(_, _)
SubRunsFrom(s, k) ==
    IF k > Len(s) THEN <<>>
    ELSE IF s[k] \in Whitespace /\ k < Len(s) /\ s[k + 1] \in Whitespace
         THEN SubRunsFrom(s, RunEnd(s, k))
         ELSE <<s[k]>> \o SubRunsFrom(s, k + 1)

\* re.sub(r"\s\s+", "", line): every run of two or more whitespace
\* characters is deleted; a single whitespace character stays.
SubRuns(line) == SubRunsFrom(line, 1)

RECURSIVE Find(_, _, _)
\* position of the first c at or after k, 0 when there is none
Find(s, c, k) ==
    IF k > Len(s) THEN 0 ELSE IF s[k] = c THEN k ELSE Find(s, c, k + 1)

StartsWithAt(s, k, old) ==
    /\ k + Len(old) - 1 <= Len(s)
    /\ \A j \in 1..Len(old) : s[k + j - 1] = old[j]

RECURSIVE ReplaceFrom(_, _, _, _)
ReplaceFrom(s, old, new, k) ==
    IF k > Len(s) THEN <<>>
    ELSE IF StartsWithAt(s, k, old)
         THEN new \o ReplaceFrom(s, old, new, k + Len(old))
         ELSE <<s[k]>> \o ReplaceFrom(s, old, new, k + 1)

\* str.replace(old, new), old non-empty: all non-overlapping occurrences
Replace(s, old, new) == ReplaceFrom(s, old, new, 1)

UpperToLower ==
    ("A" :> "a") @@ ("B" :> "b") @@ ("C" :> "c") @@ ("D" :> "d") @@ ("E" :> "e")
    @@ ("F" :> "f") @@ ("G" :> "g") @@ ("H" :> "h") @@ ("I" :> "i") @@ ("J" :> "j")
    @@ ("K" :> "k") @@ ("L" :> "l") @@ ("M" :> "m") @@ ("N" :> "n") @@ ("O" :> "o")
    @@ ("P" :> "p") @@ ("Q" :> "q") @@ ("R" :> "r") @@ ("S" :> "s") @@ ("T" :> "t")
    @@ ("U" :> "u") @@ ("V" :> "v") @@ ("W" :> "w") @@ ("X" :> "x") @@ ("Y" :> "y")
    @@ ("Z" :> "z")

RECURSIVE Lower(_)
\* str.lower()
Lower(s) ==
    IF s = <<>> THEN <<>>
    ELSE <<IF Head(s) \in DOMAIN UpperToLower THEN UpperToLower[Head(s)] ELSE Head(s)>>
             \o Lower(Tail(s))

RECURSIVE LStrip(_)
LStrip(s) ==
    IF s # <<>> /\ Head(s) \in Whitespace THEN LStrip(Tail(s)) ELSE s

RECURSIVE RStrip(_)
RStrip(s) ==
    IF s # <<>> /\ s[Len(s)] \in Whitespace THEN RStrip(SubSeq(s, 1, Len(s) - 1)) ELSE s

\* str.strip()
Strip(s) == RStrip(LStrip(s))

GitPrefix == <<"G","i","t"," ">>

\* key.replace("Git ", "").replace(" ", "-").lower()
TransformKey(key) == Lower(Replace(Replace(key, GitPrefix, <<>>), <<" ">>, <<"-">>))

\* the test of line 101 left out: a line without a colon is all key
ParseLineNoColonKey(line, colon, rep) ==
    LET key == TransformKey(IF colon = 0 THEN line ELSE SubSeq(line, 1, colon - 1))
    IN IF key \in DOMAIN REPORT_KEY_MAP
       THEN (REPORT_KEY_MAP[key] :>
                Strip(IF colon = 0 THEN <<>> ELSE SubSeq(line, colon + 1, Len(line))))
            @@ rep
       ELSE rep

\* one pass of the for loop of get_git_report over a normalized line:
\* the report dict after the line
ParseLine(line, colon, rep) ==
    IF colon = 0 THEN rep
    ELSE LET key == TransformKey(SubSeq(line, 1, colon - 1))
         IN IF key \in DOMAIN REPORT_KEY_MAP
            THEN (REPORT_KEY_MAP[key] :> Strip(SubSeq(line, colon + 1, Len(line)))) @@ rep
            ELSE rep

RECURSIVE ParseLines(_, _)
\* lines 97-107: each line is normalized, then parsed into the report dict
ParseLines(output, rep) ==
    IF output = <<>> THEN rep
    ELSE LET line == SubRuns(Head(output))
         IN ParseLines(Tail(output), ParseLine(line, Find(line, ":", 1), rep))

\* get_git_report, given what subprocess_check_output returned:
\* <<report, error>>
get_git_report(result) ==
    IF result[2] # None THEN <<None, result[2]>>
    ELSE <<ParseLines(result[1], EmptyDict), None>>

-----------------------------------------------------------------------------
(* set_git_property: the command line it builds *)

\* characters shlex.quote leaves unquoted: [A-Za-z0-9_@%+=:,./-]
SafeChars ==
    {"a","b","c","d","e","f","g","h","i","j","k","l","m","n","o","p","q","r","s","t",
     "u","v","w","x","y","z"}
    \cup DOMAIN UpperToLower
    \cup {"0","1","2","3","4","5","6","7","8","9"}
    \cup {"_","@","%","+","=",":",",",".","/","-"}

\* shlex.quote(s)
ShlexQuote(s) ==
    IF s = <<>> THEN <<"'","'">>
    ELSE IF \A k \in DOMAIN s : s[k] \in SafeChars THEN s
    ELSE <<"'">> \o Replace(s, <<"'">>, <<"'","\"","'","\"","'">>) \o <<"'">>

\* the command without the test for "": the value is always passed
SetCommandAlwaysValue(app, prop, value) ==
    [exe |-> "git:set", app |-> app, prop |-> prop, args |-> <<ShlexQuote(value)>>]

\* The command of set_git_property: the words after `dokku --quiet git:set`,
\* as written on the command line.
SetCommand(app, prop, value) ==
    IF value = <<>>
    THEN [exe |-> "git:set", app |-> app, prop |-> prop, args |-> <<>>]
    ELSE [exe |-> "git:set", app |-> app, prop |-> prop, args |-> <<ShlexQuote(value)>>]

\* The command of get_git_report.
ReportCommand(app) ==
    [exe |-> "git:report", app |-> app, prop |-> <<>>, args |-> <<>>]

\* The entry of the command log: the command and whether it exited with 0.
Ran(cmd, ok) ==
    [exe |-> cmd.exe, app |-> cmd.app, prop |-> cmd.prop, args |-> cmd.args, ok |-> ok]

-----------------------------------------------------------------------------
(* The collaborators: the shell, dokku and subprocess_check_output *)

RECURSIVE ShellWordFrom(_, _, _)
ShellWordFrom(w, k, mode) ==
    IF k > Len(w) THEN <<>>
    ELSE IF mode = "plain"
         THEN IF w[k] = "'" THEN ShellWordFrom(w, k + 1, "single")
              ELSE IF w[k] = "\"" THEN ShellWordFrom(w, k + 1, "double")
              ELSE <<w[k]>> \o ShellWordFrom(w, k + 1, "plain")
    ELSE IF mode = "single"
         THEN IF w[k] = "'" THEN ShellWordFrom(w, k + 1, "plain")
              ELSE <<w[k]>> \o ShellWordFrom(w, k + 1, "single")
    ELSE IF w[k] = "\"" THEN ShellWordFrom(w, k + 1, "plain")
         ELSE <<w[k]>> \o ShellWordFrom(w, k + 1, "double")

\* The argument the shell passes for a quoted word of the command line.
ShellWord(w) == ShellWordFrom(w, 1, "plain")

\* Values a property has after `git:set <app> <prop>` without a value:
\* the platform's own default, which the report shows as empty or as a value.
PlatformDefaults == {<<>>, <<"a">>}

\* The external system after a successful git:set command.
DokkuSet(s, cmd, dflt) ==
    IF cmd.args = <<>>
    THEN [s EXCEPT ![cmd.prop] = dflt]
    ELSE [s EXCEPT ![cmd.prop] = ShellWord(cmd.args[1])]

\* Layouts of the report: spaces before each line, between the colon and the
\* value and after the value, whether lines the module does not manage are
\* present, and whether a property without a value has no line at all.
ReportFormats ==
    {[indent |-> 7, pad |-> 3, trail |-> 0, extra |-> FALSE, sparse |-> FALSE],
     [indent |-> 7, pad |-> 1, trail |-> 2, extra |-> TRUE, sparse |-> TRUE]}

ReportLine(label, value, f) ==
    Spaces(f.indent) \o GitPrefix \o label \o <<":">> \o Spaces(f.pad) \o value
        \o Spaces(f.trail)

\* The line of a property, as a sequence of zero or one lines.
PropertyLine(label, value, f) ==
    IF f.sparse /\ value = <<>> THEN <<>> ELSE <<ReportLine(label, value, f)>>

HeaderLine == <<"=","=",">"," ","a","p","p">>
ShaLabel == <<"s","h","a">>

\* The lines `dokku --quiet git:report <app>` prints.
ReportLines(s, f) ==
    (IF f.extra THEN <<HeaderLine>> ELSE <<>>)
    \o PropertyLine(<<"d","e","p","l","o","y"," ","b","r","a","n","c","h">>,
                    s[DeployBranch], f)
    \o (IF f.extra THEN <<ReportLine(ShaLabel, <<"a">>, f)>> ELSE <<>>)
    \o PropertyLine(<<"k","e","e","p"," ","g","i","t"," ","d","i","r">>,
                    s[KeepGitDir], f)
    \o PropertyLine(<<"r","e","v"," ","e","n","v"," ","v","a","r">>,
                    s[RevEnvVar], f)

\* str(CalledProcessError): "Command '...' returned non-zero exit status N.",
\* a message that is never empty.
ErrorDetails == {<<"e">>}

\* What subprocess_check_output(command) can return for the report command:
\* <<lines, None>> when the command succeeded, <<[], detail>> when it failed,
\* the detail being a non-empty message.  (get_git_report tests the error
\* with `is not None`, main with `if error:`; the two agree on these results.)
ReadResults(s) ==
    {<<ReportLines(s, f), None>> : f \in ReportFormats}
        \cup {<<<<>>, e>> : e \in ErrorDetails}

\* What set_git_property returns, <<success, error>>: <<True, None>> when
\* check_call returned, <<False, str(e)>> when it raised CalledProcessError.
SetResults == {<<TRUE, None>>} \cup {<<FALSE, e>> : e \in ErrorDetails}

-----------------------------------------------------------------------------
(* Inputs *)

\* Property values: the reset sentinel "", a plain value, and a value with
\* a run of two spaces inside.
Values == {<<>>, <<"a">>, <<"a"," "," ","a">>}

\* Values the external system holds before the first call.
StoredValues == {<<>>, <<"a">>}

\* Orders in which the caller writes the options: as declared, or reversed.
SuppliedOrders ==
    {<<"keep_git_dir", "rev_env_var", "deploy_branch">>,
     <<"deploy_branch", "rev_env_var", "keep_git_dir">>}

RECURSIVE Supplied(_, _)
\* the options of `order` that `given` gives a value, as <<name, value>> pairs
Supplied(order, given) ==
    IF order = <<>> THEN <<>>
    ELSE (IF given[Head(order)] = None THEN <<>>
          ELSE << <<Head(order), given[Head(order)]>> >>)
         \o Supplied(Tail(order), given)

\* module.params as the caller supplied it: the options given, in the order
\* given, each at most once.  An option not given has the default None.
ParamsInputs ==
    {Supplied(order, given) :
        order \in SuppliedOrders, given \in [ParamNames -> Values \cup {None}]}

\* module.params.get(name)
ParamGet(ps, name) ==
    IF \E k \in DOMAIN ps : ps[k][1] = name
    THEN ps[CHOOSE k \in DOMAIN ps : ps[k][1] = name][2]
    ELSE None

-----------------------------------------------------------------------------
(* main() *)

NoOutcome == [kind |-> "none", changed |-> FALSE,
              msg |-> [what |-> "", prop |-> <<>>, error |-> None],
              meta |-> [app |-> App, changed |-> <<>>]]

Init ==
    /\ sys \in [DokkuProps -> StoredValues]
    /\ params \in ParamsInputs
    /\ pc = "idle"
    /\ report = EmptyDict
    /\ idx = 0
    /\ has_changed = FALSE
    /\ changed_keys = <<>>
    /\ meta = [app |-> App, changed |-> <<>>]
    /\ cmds = <<>>
    /\ outcome = NoOutcome
    /\ calls = 0
    /\ before = sys
    /\ hist = <<>>
    /\ check_output = <<<<>>, None>>
    /\ lines = <<>>
    /\ line_no = 0
    /\ ret = <<None, None>>

\* the check of line 146 left out
ReportErrorIgnored(error) == FALSE

\* `if error:` after get_git_report (line 146)
ReportFailed(error) == Truthy(error)

\* the check of line 165 left out
SetErrorIgnored(error) == FALSE

\* `if error:` after set_git_property (line 165)
SetFailed(error) == Truthy(error)

\* the loop walking the options in the order the caller gave them
LoopItemsAsSupplied == [k \in DOMAIN params |-> PROPERTY_MAP[DeclIndex(params[k][1])]]

\* the loop walking the table a second time
LoopItemsTwice == PROPERTY_MAP \o PROPERTY_MAP

\* the sequence the for loop walks (line 150)
LoopItems == PROPERTY_MAP

\* an option not given read as "" instead of None
DesiredValueDefaultEmpty(param_name) ==
    IF ParamGet(params, param_name) = None THEN <<>> ELSE ParamGet(params, param_name)

\* desired_value (line 151)
DesiredValue(param_name) == ParamGet(params, param_name)

\* `if desired_value is None` (line 154)
Unspecified(desired_value) == desired_value = None

\* an entry missing from the report read as None instead of ""
CurrentValueOrNone(rep, param_name) == DictGet(rep, param_name, None)

\* current_value (line 157)
CurrentValue(rep, param_name) == DictGet(rep, param_name, <<>>)

\* the comparison left out: every given option is written
NeverSame(desired_value, current_value) == FALSE

\* the comparison made on emptiness alone
SameValueByEmptiness(desired_value, current_value) ==
    (desired_value = <<>>) = (current_value = <<>>)

\* `if desired_value == current_value` (line 160)
SameValue(desired_value, current_value) == desired_value = current_value

\* the meta handed to fail_json (lines 147 and 167)
FailMeta == meta

\* line 173 left out: the meta as built at line 142
ExitMetaUnfilled == meta

\* the meta handed to exit_json (lines 173-174)
ExitMeta == [meta EXCEPT !.changed = changed_keys]

\* the record of a finished call
Finished(c, o, after) == [before |-> before, cmds |-> c, outcome |-> o, after |-> after]

\* main() starts: lines 129-142
Invoke ==
    /\ pc \in {"idle", "exited"}
    /\ calls < MaxCalls
    /\ calls' = calls + 1
    /\ pc' = "report"
    /\ has_changed' = FALSE
    /\ changed_keys' = <<>>
    /\ meta' = [app |-> App, changed |-> <<>>]
    /\ report' = EmptyDict
    /\ idx' = 0
    /\ cmds' = <<>>
    /\ outcome' = NoOutcome
    /\ before' = sys
    /\ UNCHANGED <<sys, params, hist>>
    /\ UNCHANGED readerVars

\* lines 145-147: the report is read; on an error, fail_json
GetReport ==
    /\ pc = "report"
    /\ \E result \in ReadResults(sys) :
        LET r == get_git_report(result)
            c == Append(cmds, Ran(ReportCommand(App), result[2] = None))
            o == [kind |-> "fail_json", changed |-> FALSE,
                  msg |-> [what |-> "get", prop |-> <<>>, error |-> r[2]],
                  meta |-> FailMeta]
        IN /\ report' = r[1]
           /\ cmds' = c
           /\ IF ReportFailed(r[2])
              THEN /\ outcome' = o
                   /\ hist' = Append(hist, Finished(c, o, sys))
                   /\ pc' = "exited"
                   /\ idx' = idx
              ELSE /\ pc' = "loop"
                   /\ idx' = 1
                   /\ UNCHANGED <<outcome, hist>>
    /\ UNCHANGED <<sys, params, has_changed, changed_keys, meta, calls, before>>
    /\ UNCHANGED readerVars

InLoop == pc = "loop" /\ idx \in DOMAIN LoopItems

\* lines 151-155: the option was not given
SkipUnspecified ==
    /\ InLoop
    /\ Unspecified(DesiredValue(LoopItems[idx][1]))
    /\ idx' = idx + 1
    /\ UNCHANGED <<sys, params, pc, report, has_changed, changed_keys, meta, cmds,
                   outcome, calls, before, hist>>
    /\ UNCHANGED readerVars

\* lines 157-161: the value is already the desired one
SkipEqual ==
    /\ InLoop
    /\ LET desired_value == DesiredValue(LoopItems[idx][1])
       IN /\ ~Unspecified(desired_value)
          /\ SameValue(desired_value, CurrentValue(report, LoopItems[idx][1]))
    /\ idx' = idx + 1
    /\ UNCHANGED <<sys, params, pc, report, has_changed, changed_keys, meta, cmds,
                   outcome, calls, before, hist>>
    /\ UNCHANGED readerVars

\* lines 164-171: set_git_property returned no error
SetOk ==
    /\ InLoop
    /\ LET param_name == LoopItems[idx][1]
           dokku_prop == LoopItems[idx][2]
           desired_value == DesiredValue(param_name)
           cmd == SetCommand(App, dokku_prop, desired_value)
       IN /\ ~Unspecified(desired_value)
          /\ ~SameValue(desired_value, CurrentValue(report, param_name))
          /\ \E res \in SetResults, dflt \in PlatformDefaults :
                /\ ~SetFailed(res[2])
                /\ sys' = IF res[1] THEN DokkuSet(sys, cmd, dflt) ELSE sys
                /\ cmds' = Append(cmds, Ran(cmd, res[1]))
          /\ has_changed' = TRUE
          /\ changed_keys' = Append(changed_keys, param_name)
    /\ idx' = idx + 1
    /\ UNCHANGED <<params, pc, report, meta, outcome, calls, before, hist>>
    /\ UNCHANGED readerVars

\* lines 164-168: set_git_property returned an error, fail_json
SetFail ==
    /\ InLoop
    /\ LET param_name == LoopItems[idx][1]
           dokku_prop == LoopItems[idx][2]
           desired_value == DesiredValue(param_name)
           cmd == SetCommand(App, dokku_prop, desired_value)
       IN /\ ~Unspecified(desired_value)
          /\ ~SameValue(desired_value, CurrentValue(report, param_name))
          /\ \E res \in SetResults, dflt \in PlatformDefaults :
                LET c == Append(cmds, Ran(cmd, res[1]))
                    after == IF res[1] THEN DokkuSet(sys, cmd, dflt) ELSE sys
                    o == [kind |-> "fail_json", changed |-> FALSE,
                          msg |-> [what |-> "set", prop |-> dokku_prop, error |-> res[2]],
                          meta |-> FailMeta]
                IN /\ SetFailed(res[2])
                   /\ sys' = after
                   /\ cmds' = c
                   /\ outcome' = o
                   /\ hist' = Append(hist, Finished(c, o, after))
    /\ pc' = "exited"
    /\ UNCHANGED <<params, report, idx, has_changed, changed_keys, meta, calls, before>>
    /\ UNCHANGED readerVars

\* lines 173-174: exit_json
ExitJson ==
    /\ pc = "loop"
    /\ idx \notin DOMAIN LoopItems
    /\ LET o == [kind |-> "exit_json", changed |-> has_changed,
                 msg |-> [what |-> "", prop |-> <<>>, error |-> None],
                 meta |-> ExitMeta]
       IN /\ outcome' = o
          /\ hist' = Append(hist, Finished(cmds, o, sys))
    /\ meta' = ExitMeta
    /\ pc' = "exited"
    /\ UNCHANGED <<sys, params, report, idx, has_changed, changed_keys, cmds, calls,
                   before>>
    /\ UNCHANGED readerVars

Next ==
    \/ Invoke
    \/ GetReport
    \/ SkipUnspecified
    \/ SkipEqual
    \/ SetOk
    \/ SetFail
    \/ ExitJson

Spec == Init /\ [][Next]_vars

\* A step of a call that has started.
CallStep == GetReport \/ SkipUnspecified \/ SkipEqual \/ SetOk \/ SetFail \/ ExitJson

-----------------------------------------------------------------------------
(* get_git_report() line by line, on report lines of any layout *)

\* The words dokku prints for each property after the prefix word.
LabelOf ==
    ("keep_git_dir" :> <<"k","e","e","p"," ","g","i","t"," ","d","i","r">>)
    @@ ("rev_env_var" :> <<"r","e","v"," ","e","n","v"," ","v","a","r">>)
    @@ ("deploy_branch" :> <<"d","e","p","l","o","y"," ","b","r","a","n","c","h">>)

\* A report line: indentation, the prefix word, a gap, the label, the
\* separator (a colon or nothing), padding and the value.
ReportLineIn(indent, gap, label, sep, pad, value) ==
    Spaces(indent) \o <<"G","i","t">> \o Spaces(gap) \o label \o sep
        \o Spaces(pad) \o value

\* Values on a report line: none, a word, and a word with a colon inside.
LineValues == {<<>>, <<"t","r","u","e">>, <<"a",":","b">>}

LineLabels == {LabelOf[p] : p \in ParamNames} \cup {ShaLabel}

ReaderLines ==
    {ReportLineIn(indent, gap, label, sep, pad, value) :
        indent \in 0..MaxIndent, gap \in 1..MaxGap, label \in LineLabels,
        sep \in {<<":">>, <<>>}, pad \in 0..MaxPad, value \in LineValues}

\* A line as dokku prints it, for a property holding "b".
FirstLines ==
    {ReportLineIn(MaxIndent, 1, LabelOf[p], <<":">>, MaxPad, <<"b">>) : p \in ParamNames}

\* What subprocess_check_output returned to get_git_report: one line of
\* any layout, alone or after a line as dokku prints it; no line; an error.
ReaderResults ==
    {<<<<l>>, None>> : l \in ReaderLines}
        \cup {<<<<f, l>>, None>> : f \in FirstLines, l \in ReaderLines}
        \cup {<<<<>>, None>>}
        \cup {<<<<>>, e>> : e \in ErrorDetails}

RECURSIVE NormalizeLines(_)
\* line 97: [re.sub(r"\s\s+", "", line) for line in output]
NormalizeLines(raw) ==
    IF raw = <<>> THEN <<>>
    ELSE <<SubRuns(Head(raw))>> \o NormalizeLines(Tail(raw))

ReaderInit ==
    /\ check_output \in ReaderResults
    /\ lines = <<>>
    /\ line_no = 0
    /\ ret = <<None, None>>
    /\ pc = "called"
    /\ report = EmptyDict
    /\ sys = [p \in DokkuProps |-> <<>>]
    /\ params = <<>>
    /\ idx = 0
    /\ has_changed = FALSE
    /\ changed_keys = <<>>
    /\ meta = [app |-> App, changed |-> <<>>]
    /\ cmds = <<>>
    /\ outcome = NoOutcome
    /\ calls = 0
    /\ before = sys
    /\ hist = <<>>

\* lines 93-94: the command failed
ReturnError ==
    /\ pc = "called"
    /\ check_output[2] # None
    /\ ret' = <<None, check_output[2]>>
    /\ pc' = "returned"
    /\ UNCHANGED <<report, check_output, lines, line_no>>
    /\ UNCHANGED mainVars

\* lines 96-98: the lines are normalized, the report starts empty
Normalize ==
    /\ pc = "called"
    /\ check_output[2] = None
    /\ lines' = NormalizeLines(check_output[1])
    /\ report' = EmptyDict
    /\ line_no' = 1
    /\ pc' = "loop"
    /\ UNCHANGED <<check_output, ret>>
    /\ UNCHANGED mainVars

\* lines 100-107: one pass of the for loop
ReadLine ==
    /\ pc = "loop"
    /\ line_no \in DOMAIN lines
    /\ report' = ParseLine(lines[line_no], Find(lines[line_no], ":", 1), report)
    /\ line_no' = line_no + 1
    /\ UNCHANGED <<pc, check_output, lines, ret>>
    /\ UNCHANGED mainVars

\* line 109
ReturnReport ==
    /\ pc = "loop"
    /\ line_no \notin DOMAIN lines
    /\ ret' = <<report, None>>
    /\ pc' = "returned"
    /\ UNCHANGED <<report, check_output, lines, line_no>>
    /\ UNCHANGED mainVars

ReaderNext ==
    \/ ReturnError
    \/ Normalize
    \/ ReadLine
    \/ ReturnReport

ReaderSpec == ReaderInit /\ [][ReaderNext]_vars

\* The line-by-line reader returns what get_git_report, as main() uses it,
\* computes in one step.
ReaderAgrees == pc = "returned" => ret = get_git_report(check_output)

-----------------------------------------------------------------------------
(* Vocabulary of the properties *)

IsSet(e) == e.exe = "git:set"

\* the git:set commands of a command log, in order
SetCmds(c) == SelectSeq(c, IsSet)

\* the option a dokku property belongs to
ParamOf(prop) == PROPERTY_MAP[CHOOSE k \in DOMAIN PROPERTY_MAP : PROPERTY_MAP[k][2] = prop][1]

RECURSIVE ParamsOf(_)
\* the options of a sequence of git:set commands
ParamsOf(c) == IF c = <<>> THEN <<>> ELSE <<ParamOf(Head(c).prop)>> \o ParamsOf(Tail(c))

Succeeded(e) == IsSet(e) /\ e.ok

\* the options whose git:set command succeeded, in the order of execution
AppliedParams(c) == ParamsOf(SelectSeq(c, Succeeded))

ReadFailedNow == cmds # <<>> /\ ~cmds[1].ok

WriteFailedNow == \E k \in DOMAIN cmds : IsSet(cmds[k]) /\ ~cmds[k].ok

DiscoveryFailed(o) == o.kind = "fail_json" /\ o.msg.what = "get"

WriteFailed(o) == o.kind = "fail_json" /\ o.msg.what = "set"

Success(o) == o.kind = "exit_json"

-----------------------------------------------------------------------------
(* Properties *)

\* C1: when a write fails, the failure outcome handed to the caller carries
\* the list of exactly the properties whose writes succeeded earlier in the
\* same call, in evaluation order.
C1_FailureCarriesApplied ==
    (pc = "exited" /\ WriteFailedNow) => outcome.meta.changed = AppliedParams(cmds)

\* C2: once a write command has failed, no further external command is issued
\* in the call (the failed command stays the last one and the call has ended),
\* and the properties written before it keep the values written.
C2_StopOnFirstWriteFailure ==
    \A k \in DOMAIN cmds :
        (IsSet(cmds[k]) /\ ~cmds[k].ok) =>
            /\ k = Len(cmds)
            /\ pc = "exited"
            /\ WriteFailed(outcome)
            /\ outcome.msg.prop = cmds[k].prop
            /\ \A j \in 1..(k - 1) :
                  IsSet(cmds[j]) =>
                      /\ DeclIndex(ParamOf(cmds[j].prop)) < DeclIndex(ParamOf(cmds[k].prop))
                      /\ IF cmds[j].args = <<>>
                         THEN sys[cmds[j].prop] \in PlatformDefaults
                         ELSE sys[cmds[j].prop] = DesiredValue(ParamOf(cmds[j].prop))
            /\ \A q \in DOMAIN PROPERTY_MAP :
                  q >= DeclIndex(ParamOf(cmds[k].prop)) =>
                      sys[PROPERTY_MAP[q][2]] = before[PROPERTY_MAP[q][2]]

\* C2 witness: the second write of a call failed after the first was applied.
C2_Witness ==
    /\ pc = "exited"
    /\ Len(cmds) = 3
    /\ cmds[2].ok
    /\ ~cmds[3].ok
    /\ sys[cmds[2].prop] # before[cmds[2].prop]

Name(k) == PROPERTY_MAP[k][1]
Prop(k) == PROPERTY_MAP[k][2]

\* the names of a sequence of options are in strictly increasing declaration order
Increasing(names) ==
    \A j, k \in DOMAIN names : j < k => DeclIndex(names[j]) < DeclIndex(names[k])

\* the names the caller gave
GivenNames == {params[k][1] : k \in DOMAIN params}

\* the read of the current call succeeded and main holds its report
ReadOk == pc \in {"loop", "exited"} /\ cmds # <<>> /\ cmds[1].ok

\* the loop has dealt with the option of position k
Processed(k) ==
    \/ pc = "loop" /\ k < idx
    \/ pc = "exited" /\ Success(outcome)
    \/ pc = "exited" /\ WriteFailed(outcome) /\ k <= idx

\* C4: when the CurrentState read already equals DesiredState on every key
\* given, the call issues no write, leaves the system as it was and reports
\* changed = false with an empty changed list.
C4_Idempotence ==
    (/\ ReadOk
     /\ \A k \in DOMAIN params :
           params[k][1] \in DOMAIN report /\ report[params[k][1]] = params[k][2])
    => /\ SetCmds(cmds) = <<>>
       /\ sys = before
       /\ changed_keys = <<>>
       /\ pc = "exited" =>
             /\ Success(outcome)
             /\ ~outcome.changed
             /\ outcome.meta.changed = <<>>

\* C4 witness: a finished call that was given two options, both already in place.
C4_Witness ==
    /\ pc = "exited"
    /\ ReadOk
    /\ Len(params) = 2
    /\ \A k \in DOMAIN params :
          params[k][1] \in DOMAIN report /\ report[params[k][1]] = params[k][2]

\* C5: a property absent from DesiredState is never written: no git:set
\* command names it and the external system keeps its value.
C5_AbsentUntouched ==
    \A k \in DOMAIN PROPERTY_MAP :
        Name(k) \notin GivenNames =>
            /\ \A j \in DOMAIN cmds : cmds[j].prop # Prop(k)
            /\ sys[Prop(k)] = before[Prop(k)]

\* C5 witness: a call wrote a property and left alone an absent one that
\* holds a value.
C5_Witness ==
    /\ pc = "exited"
    /\ \E k \in DOMAIN PROPERTY_MAP : Name(k) \notin GivenNames /\ sys[Prop(k)] # <<>>
    /\ \E j \in DOMAIN cmds : Succeeded(cmds[j])

\* C6: once the loop has dealt with a property given as "" whose current
\* value is not empty, a git:set command for it was issued; a git:set command
\* for a property given as "" has no value argument, and one for a non-empty
\* value carries exactly that value as its one argument.
C6_ResetSentinel ==
    /\ \A k \in DOMAIN PROPERTY_MAP :
          (/\ ReadOk
           /\ Processed(k)
           /\ ParamGet(params, Name(k)) = <<>>
           /\ CurrentValue(report, Name(k)) # <<>>)
          => \E j \in DOMAIN cmds : IsSet(cmds[j]) /\ cmds[j].prop = Prop(k)
    /\ \A j \in DOMAIN cmds :
          IsSet(cmds[j]) =>
              LET desired == ParamGet(params, ParamOf(cmds[j].prop))
              IN IF desired = <<>>
                 THEN cmds[j].args = <<>>
                 ELSE /\ Len(cmds[j].args) = 1
                      /\ ShellWord(cmds[j].args[1]) = desired

\* C6 witness: one call issued a reset and a write of a value with spaces.
C6_Witness ==
    /\ \E j \in DOMAIN cmds : IsSet(cmds[j]) /\ cmds[j].args = <<>>
    /\ \E j \in DOMAIN cmds :
          /\ IsSet(cmds[j])
          /\ cmds[j].args # <<>>
          /\ ShellWord(cmds[j].args[1]) = <<"a"," "," ","a">>

\* C7: the git:set commands are issued, and the changed list is built, in the
\* declaration order of the property table, whatever order the options were
\* given in.
C7_DeclarationOrder ==
    /\ Increasing(ParamsOf(SetCmds(cmds)))
    /\ Increasing(changed_keys)
    /\ Increasing(outcome.meta.changed)

\* C7 witness: the options were given in reverse order and all three were written.
C7_Witness ==
    /\ Len(params) = 3
    /\ params[1][1] = "deploy_branch"
    /\ Len(changed_keys) = 3
    /\ Success(outcome)

\* a sequence of names holds no name twice
NoDuplicates(names) == \A j, k \in DOMAIN names : names[j] = names[k] => j = k

\* a sequence of names holds only names the caller gave
OnlyGiven(names) == \A k \in DOMAIN names : names[k] \in GivenNames

\* the call ran these commands and every one of them succeeded
AllOk(c) == c # <<>> /\ \A k \in DOMAIN c : c[k].ok

\* the caller gave exactly the option `name`, with a non-empty value
GaveOnly(name) == Len(params) = 1 /\ params[1][1] = name /\ params[1][2] # <<>>

\* C8: for a property A and a non-empty value x, a call given {A: x} whose
\* CurrentState has no entry for A issues exactly one write, for A with the
\* value x; and the next call with the same options, the system reporting the
\* value written, issues no write.
C8_RoundTrip ==
    \A k \in DOMAIN PROPERTY_MAP :
        /\ (/\ pc = "exited"
            /\ GaveOnly(Name(k))
            /\ AllOk(cmds)
            /\ Name(k) \notin DOMAIN report)
           => /\ Len(SetCmds(cmds)) = 1
              /\ SetCmds(cmds)[1].prop = Prop(k)
              /\ Len(SetCmds(cmds)[1].args) = 1
              /\ ShellWord(SetCmds(cmds)[1].args[1]) = params[1][2]
        /\ (/\ pc = "exited"
            /\ GaveOnly(Name(k))
            /\ Len(hist) = 2
            /\ hist[1].before[Prop(k)] = <<>>
            /\ AllOk(hist[1].cmds)
            /\ before[Prop(k)] = params[1][2]
            /\ AllOk(cmds))
           => SetCmds(cmds) = <<>>

\* C9: at every point of a call the changed list, in main and as handed to
\* the caller, holds each name at most once and only names present in
\* DesiredState.
C9_ChangedListInvariant ==
    /\ NoDuplicates(changed_keys) /\ OnlyGiven(changed_keys)
    /\ NoDuplicates(meta.changed) /\ OnlyGiven(meta.changed)
    /\ NoDuplicates(outcome.meta.changed) /\ OnlyGiven(outcome.meta.changed)

\* C9 witness: a call given two of the options has changed both.
C9_Witness ==
    /\ pc = "loop"
    /\ Len(params) = 2
    /\ Len(changed_keys) = 2

-----------------------------------------------------------------------------
(* Properties of get_git_report, checked under ReaderSpec *)

Returned == pc = "returned" /\ check_output[2] = None

\* the last line get_git_report was given
LastLine == check_output[1][Len(check_output[1])]

\* C11: the report line "Git  keep git dir:   true" (two spaces after the
\* prefix word, three after the colon) is parsed into keep_git_dir = "true".
C11_TwoSpaceGap ==
    (Returned /\ check_output[1] # <<>>
        /\ LastLine = ReportLineIn(0, 2, LabelOf["keep_git_dir"], <<":">>, 3,
                                   <<"t","r","u","e">>))
    => ("keep_git_dir" \in DOMAIN ret[1]
            /\ ret[1]["keep_git_dir"] = <<"t","r","u","e">>)

\* the entry p of the returned report is owed to line k: the line has a
\* colon and the text before its first colon, transformed, is p's read key
OwedTo(p, k) ==
    \E c \in DOMAIN lines[k] :
        /\ lines[k][c] = ":"
        /\ \A j \in 1..(c - 1) : lines[k][j] # ":"
        /\ LET key == TransformKey(SubSeq(lines[k], 1, c - 1))
           IN key \in DOMAIN REPORT_KEY_MAP /\ REPORT_KEY_MAP[key] = p

\* C12: whatever the read printed, get_git_report returns no error, the
\* keys of the report are among the three option names, and every entry
\* comes from a line that has a colon and a key of the read-key table:
\* lines without a colon and lines with another key add nothing.
C12_TolerantParsing ==
    Returned =>
        /\ ret[2] = None
        /\ DOMAIN ret[1] \subseteq ParamNames
        /\ \A p \in DOMAIN ret[1] : \E k \in DOMAIN lines : OwedTo(p, k)

\* a line without a colon and a line with an unknown key were read, after
\* a line that gave an entry
C12_Witness ==
    /\ Returned
    /\ Len(check_output[1]) = 2
    /\ DOMAIN ret[1] = {"rev_env_var"}
    /\ \/ \A c \in DOMAIN lines[2] : lines[2][c] # ":"
       \/ LastLine = ReportLineIn(MaxIndent, 1, ShaLabel, <<":">>, MaxPad, <<"t","r","u","e">>)

\* C18: a line made of indentation, "Git", the property's words separated
\* by single spaces, a colon, one or more spaces and a value without
\* whitespace gives the property that value.
C18_CanonicalLines ==
    \A p \in ParamNames, indent \in 0..MaxIndent, pad \in 1..MaxPad,
       value \in LineValues \ {<<>>} :
        (Returned /\ check_output[1] # <<>>
            /\ LastLine = ReportLineIn(indent, 1, LabelOf[p], <<":">>, pad, value))
        => (p \in DOMAIN ret[1] /\ ret[1][p] = value)

-----------------------------------------------------------------------------
(* Properties of main(), continued *)

\* the names of a sequence, as a set
NameSet(names) == {names[k] : k \in DOMAIN names}

\* C13: when the call ends with exit_json, the changed flag is true exactly
\* when the changed list is not empty, and exactly when at least one git:set
\* command of the call succeeded.
C13_ChangedFlag ==
    (pc = "exited" /\ Success(outcome)) =>
        /\ outcome.changed = (outcome.meta.changed # <<>>)
        /\ outcome.changed = (\E j \in DOMAIN cmds : Succeeded(cmds[j]))

\* C13 witness: after a call that failed on a write, a call given three
\* options wrote two properties and ended with exit_json.
C13_Witness ==
    /\ pc = "exited"
    /\ Success(outcome)
    /\ outcome.changed
    /\ Len(params) = 3
    /\ Len(outcome.meta.changed) = 2
    /\ Len(hist) = 2
    /\ WriteFailed(hist[1].outcome)

\* the option is given and its value differs from the report's, an entry
\* missing from the report counting as ""
Differs(param_name) ==
    /\ ParamGet(params, param_name) # None
    /\ ParamGet(params, param_name) # DictGet(report, param_name, <<>>)

\* C14: in a call whose read and writes all succeed, a git:set command is
\* issued for a property exactly when the option is given and differs from
\* the report read at the start (a missing entry counting as ""); the
\* changed list holds exactly those options, each once.
C14_ExactDiff ==
    (pc = "exited" /\ Success(outcome) /\ AllOk(cmds)) =>
        /\ NameSet(ParamsOf(SetCmds(cmds))) = {n \in ParamNames : Differs(n)}
        /\ NoDuplicates(ParamsOf(SetCmds(cmds)))
        /\ NameSet(outcome.meta.changed) = {n \in ParamNames : Differs(n)}
        /\ NoDuplicates(outcome.meta.changed)

\* C14 witness: of three options given, one was equal and two differed, one
\* of them from a value the report held.
C14_Witness ==
    /\ pc = "exited"
    /\ Success(outcome)
    /\ AllOk(cmds)
    /\ Len(params) = 3
    /\ Len(SetCmds(cmds)) = 2
    /\ \E n \in ParamNames : Differs(n) /\ n \in DOMAIN report /\ report[n] # <<>>

\* C15: an option given as "" for which the report read has no entry is
\* taken as already equal: no git:set command names its property and it
\* does not enter the changed list.
C15_AbsentIsEmpty ==
    \A k \in DOMAIN PROPERTY_MAP :
        (/\ ReadOk
         /\ Name(k) \notin DOMAIN report
         /\ ParamGet(params, Name(k)) = <<>>)
        => /\ \A j \in DOMAIN cmds : cmds[j].prop # Prop(k)
           /\ \A j \in DOMAIN changed_keys : changed_keys[j] # Name(k)
           /\ \A j \in DOMAIN outcome.meta.changed : outcome.meta.changed[j] # Name(k)

\* C15 witness: a call ended with exit_json having been given "" for a
\* property the report had no line for, and having written another one.
C15_Witness ==
    /\ pc = "exited"
    /\ ReadOk
    /\ Success(outcome)
    /\ \E k \in DOMAIN PROPERTY_MAP :
          Name(k) \notin DOMAIN report /\ ParamGet(params, Name(k)) = <<>>
    /\ outcome.changed

\* the external system reports the values written by call i: after the
\* call, each property a git:set command of the call succeeded on holds the
\* value the option was given
ReportsWritten(i) ==
    \A j \in DOMAIN hist[i].cmds :
        Succeeded(hist[i].cmds[j]) =>
            hist[i].after[hist[i].cmds[j].prop]
                = ParamGet(params, ParamOf(hist[i].cmds[j].prop))

\* call i stopped on a failed write after applying some property, and the
\* next call, with the same options, had every command succeed
Resumed(i) ==
    /\ i + 1 \in DOMAIN hist
    /\ WriteFailed(hist[i].outcome)
    /\ AppliedParams(hist[i].cmds) # <<>>
    /\ ReportsWritten(i)
    /\ AllOk(hist[i + 1].cmds)
    /\ Success(hist[i + 1].outcome)
    /\ ReportsWritten(i + 1)

\* C16: when a call stopped on a failed write after applying some
\* properties and the next call with the same options has every command
\* succeed, the system reporting the values written, the next call issues no
\* git:set for a property the first call applied and only for properties
\* whose value still differed from the option; a call after that, its
\* commands succeeding, issues no git:set at all.
C16_ResumeAfterFailure ==
    \A i \in DOMAIN hist :
        Resumed(i) =>
            /\ \A j \in DOMAIN hist[i + 1].cmds :
                  IsSet(hist[i + 1].cmds[j]) =>
                      /\ ParamOf(hist[i + 1].cmds[j].prop)
                            \notin NameSet(AppliedParams(hist[i].cmds))
                      /\ hist[i + 1].before[hist[i + 1].cmds[j].prop]
                            # ParamGet(params, ParamOf(hist[i + 1].cmds[j].prop))
            /\ (i + 2 \in DOMAIN hist /\ AllOk(hist[i + 2].cmds))
                  => SetCmds(hist[i + 2].cmds) = <<>>

\* the outcomes, of the three, that o is
OutcomesOf(o) ==
    (IF Success(o) THEN {"success"} ELSE {})
        \cup (IF DiscoveryFailed(o) THEN {"discovery failed"} ELSE {})
        \cup (IF WriteFailed(o) THEN {"write failed"} ELSE {})

Running == pc \in {"report", "loop"}

\* the most steps the running call still has to take before it ends
StepsLeft ==
    IF pc = "report" THEN Len(LoopItems) + 2
    ELSE IF pc = "loop" THEN Len(LoopItems) + 2 - idx
    ELSE 0

\* a call runs at most one read and at most one write per property; while
\* it runs it has no outcome and can take a step, and once ended it has
\* exactly one of the three outcomes
OneOutcome ==
    /\ Len(SelectSeq(cmds, LAMBDA e : ~IsSet(e))) <= 1
    /\ Len(SetCmds(cmds)) <= Len(PROPERTY_MAP)
    /\ Running => (outcome.kind = "none" /\ StepsLeft > 0 /\ ENABLED CallStep)
    /\ pc = "exited" => Cardinality(OutcomesOf(outcome)) = 1

\* every step of a running call brings its end nearer
Progress == Running => StepsLeft' < StepsLeft

\* a step taken once the outcome is reported runs no command of that call:
\* it leaves the system and the command log alone, or starts the next call
QuietAfterOutcome ==
    pc = "exited" =>
        /\ sys' = sys
        /\ cmds' = cmds \/ (calls' = calls + 1 /\ cmds' = <<>>)

WrittenByPreviousCall(k) ==
    /\ calls >= 2
    /\ Len(hist) >= calls - 1
    /\ \E j \in DOMAIN hist[calls - 1].cmds :
          /\ Succeeded(hist[calls - 1].cmds[j])
          /\ hist[calls - 1].cmds[j].prop = Prop(k)
          /\ hist[calls - 1].cmds[j].args # <<>>

\* C19: PROPERTY_MAP and REPORT_KEY_MAP cover the same three option names,
\* each once, and REPORT_KEY_MAP takes the dokku property PROPERTY_MAP gives
\* an option back to that option; so a value written for an option by one
\* call is in the report of the next call under that option, and the report
\* holds a value only under options whose property holds one.
C19_TablesConsistent ==
    /\ NoDuplicates([k \in DOMAIN PROPERTY_MAP |-> Name(k)])
    /\ Cardinality(DOMAIN REPORT_KEY_MAP) = Len(PROPERTY_MAP)
    /\ {REPORT_KEY_MAP[key] : key \in DOMAIN REPORT_KEY_MAP} = ParamNames
    /\ Cardinality(ParamNames) = Len(PROPERTY_MAP)
    /\ \A k \in DOMAIN PROPERTY_MAP :
          Prop(k) \in DOMAIN REPORT_KEY_MAP /\ REPORT_KEY_MAP[Prop(k)] = Name(k)
    /\ ReadOk =>
          /\ \A k \in DOMAIN PROPERTY_MAP :
                WrittenByPreviousCall(k) =>
                    Name(k) \in DOMAIN report /\ report[Name(k)] # <<>>
          /\ \A k \in DOMAIN PROPERTY_MAP :
                (Name(k) \in DOMAIN report /\ report[Name(k)] # <<>>)
                    => before[Prop(k)] # <<>>

\* C19 witness: the call before wrote one property, the others hold no
\* value, and the current call has read the report.
C19_Witness ==
    /\ ReadOk
    /\ \E k \in DOMAIN PROPERTY_MAP :
          /\ WrittenByPreviousCall(k)
          /\ \A j \in DOMAIN PROPERTY_MAP : j # k => before[Prop(j)] = <<>>
    /\ Cardinality(DOMAIN report) = 1

====
